---------------------------- MODULE Spec2Model ----------------------------
(***************************************************************************)
(* A model of src/downloaders/downloader.py: the AudioDownloader base      *)
(* class (icon retrieval, raw fetch helper, file-name allocation) and the  *)
(* uniqify_list helper.                                                    *)
(*                                                                         *)
(* Every method is one action.  What the network, the HTML parser, the     *)
(* image decoder and the temp directory answer is drawn with \E from small *)
(* sets.  The variable "last" records what the most recent call did that   *)
(* its caller can observe: the requests it issued, whether it raised, what *)
(* it returned.                                                            *)
(***************************************************************************)
EXTENDS Integers, Sequences, FiniteSets

VARIABLES
    with_pyqt,        \* module flag, downloader.py:23-28
    site_icon,        \* self.site_icon
    language,         \* self.language
    downloads_list,   \* self.downloads_list
    display_text,     \* self.display_text
    base_name,        \* self.base_name
    url,              \* self.url
    icon_url,         \* self.icon_url
    use_temp_files,   \* self.use_temp_files
    file_extension,   \* self.file_extension
    tmp_dir,          \* files present in the OS temp directory
    media_dir,        \* files present in the host's media directory
    issued,           \* temp paths get_file_name has returned so far
    uq,               \* the current uniqify_list call: argument and result
    last              \* observable outcome of the most recent call

vars == <<with_pyqt, site_icon, language, downloads_list, display_text,
          base_name, url, icon_url, use_temp_files, file_extension,
          tmp_dir, media_dir, issued, uq, last>>

iconVars == <<with_pyqt, site_icon, url, icon_url>>
textVars == <<language, downloads_list, display_text, base_name>>
fileVars == <<use_temp_files, file_extension, tmp_dir, media_dir, issued>>

---------------------------------------------------------------------------
(* Bounds of the model *)

\* largest width / height of an image a site may serve
MaxDim == 22
\* longest argument of uniqify_list
MaxLen == 4
\* number of distinct stems the temp directory can hand out per suffix
MaxTempNames == 2
\* most audio variants one download_files call finds
MaxVariants == 2
\* most files of one base name the media directory holds
MaxMedia == 2

---------------------------------------------------------------------------
(* Values *)

\* Python's None
None == [none |-> TRUE]

\* self.max_icon_size
max_icon_size == 20

\* self.user_agent
user_agent == "Mozilla/5.0"

\* A QImage is modelled by its size; the null image (undecodable data) is 0x0.
NullImage == [w |-> 0, h |-> 0]
Images == {NullImage} \cup [w : 1..MaxDim, h : 1..MaxDim]

\* URLs are a host and a path.
Url(host, path) == [host |-> host, path |-> path]

\* The texts a host passes in.
Words == {"neko", "inu"}

\* HTTP status codes a server answers with, and their reason phrases.
Codes == {200, 204, 404, 500}

Reason(code) ==
    CASE code = 200 -> "OK"
      [] code = 204 -> "No Content"
      [] code = 404 -> "Not Found"
      [] code = 500 -> "Internal Server Error"

\* Python's str() of a status code.
str(code) ==
    CASE code = 200 -> "200"
      [] code = 204 -> "204"
      [] code = 404 -> "404"
      [] code = 500 -> "500"

Contains(seq, x) == \E i \in 1..Len(seq) : seq[i] = x

\* What the network does with one request: the host cannot be reached, or a
\* server answers with a status line and a body.
Unreachable == [kind |-> "unreachable"]
Response(code, body) ==
    [kind |-> "response", code |-> code, msg |-> Reason(code), body |-> body]

---------------------------------------------------------------------------
(* urllib *)

\* urllib.request.Request(url) plus add_header('User-agent', ...)
Request(u, agent) == [url |-> u, user_agent |-> agent]

\* urllib.parse.urljoin(base, path) for an absolute path: the base's host.
urljoin(base, path) == Url(base.host, path)

\* urllib.request.urlopen: a connection failure raises URLError; a status
\* outside 2xx raises HTTPError (a URLError) whose str() is
\* "HTTP Error <code>: <msg>"; a 2xx response is returned.
urlopen(net) ==
    IF net.kind = "unreachable"
    THEN [raised |-> "URLError", message |-> <<"urlopen error">>]
    ELSE IF net.code \in 200..299
    THEN [raised |-> "none", message |-> <<>>]
    ELSE [raised |-> "HTTPError",
          message |-> <<"HTTP Error ", str(net.code), ": ", net.msg>>]

---------------------------------------------------------------------------
(* The record of a call *)

NoCall ==
    [op |-> "init", raised |-> "none", message |-> <<>>, reqs |-> <<>>,
     before |-> None, raw |-> None, page |-> "-", link |-> "-",
     net |-> None, ret |-> None, arg |-> None, asked |-> <<>>]

IconOps == {"maybe_get_icon", "get_favicon"}

---------------------------------------------------------------------------
(* Icon retrieval: maybe_get_icon, get_favicon *)

\* "if self.site_icon": None is false, a QImage object (it defines neither
\* __bool__ nor __len__) is true.
IsSetAlways(icon) == FALSE
IsSet(icon) == icon /= None

\* "if not with_pyqt"
ToolkitAlways(flag) == TRUE
Toolkit(flag) == flag

\* The size test before scaling.
NeedsScalingWidthOnly(img) == img.w > max_icon_size
NeedsScaling(img) == img.w > max_icon_size \/ img.h > max_icon_size

Max(a, b) == IF a >= b THEN a ELSE b

\* QImage.scaled(QSize(m, m), Qt.KeepAspectRatio, ...): QSize::scaled picks the
\* side that fills the box, integer division gives the other, and QImage::scaled
\* raises a side of 0 to 1.
scaled(img, m) ==
    LET rw == (m * img.w) \div img.h
    IN  IF rw <= m
        THEN [w |-> Max(rw, 1), h |-> m]
        ELSE [w |-> m, h |-> Max((m * img.h) \div img.w, 1)]

\* QImage.fromData(response.read()) followed by the scaling step.
StoreImage(img) == IF NeedsScaling(img) THEN scaled(img, max_icon_size) ELSE img

\* What a request for an image may meet.
IconNets ==
    {Unreachable, Response(404, None), Response(204, None)}
        \cup {Response(200, img) : img \in Images}

\* What the request for the page at icon_url may meet; the body of a page is
\* what its rel=icon link tag looks like: absent, without href, or an href that
\* is absolute or relative.
Links == {"absent", "nohref", "absolute", "relative"}
PageNets ==
    {Unreachable, Response(404, "absent"), Response(204, "absent")}
        \cup {Response(200, l) : l \in Links}

\* The outcome of one call: the new site_icon and the call's record.
IconResult(icon, raised, reqs, raw, page, link) ==
    [site_icon |-> icon, raised |-> raised, reqs |-> reqs, raw |-> raw,
     page |-> page, link |-> link]

\* get_favicon past its two guards, for one answer of the network.
favicon_fetch(icon, net) ==
    LET req == Request(urljoin(icon_url, "/favicon.ico"), user_agent)
        r   == urlopen(net)
    IN  IF r.raised /= "none"
        THEN IconResult(icon, r.raised, <<req>>, None, "-", "-")
        ELSE IF net.code /= 200
        THEN IconResult(None, "none", <<req>>, None, "-", "-")
        ELSE IconResult(StoreImage(net.body), "none", <<req>>, net.body, "-", "-")

\* get_favicon without its "if self.site_icon: return" guard
get_favicon_unguarded(icon) ==
    IF ~Toolkit(with_pyqt)
    THEN {IconResult(None, "none", <<>>, None, "-", "-")}
    ELSE {favicon_fetch(icon, net) : net \in IconNets}

get_favicon_results(icon) ==
    IF IsSet(icon)
    THEN {IconResult(icon, "none", <<>>, None, "-", "-")}
    ELSE IF ~Toolkit(with_pyqt)
    THEN {IconResult(None, "none", <<>>, None, "-", "-")}
    ELSE {favicon_fetch(icon, net) : net \in IconNets}

\* The fallback from maybe_get_icon: get_favicon's outcome after the page
\* request.
Fallback(icon, pagereq, page, link) ==
    {[f EXCEPT !.reqs = <<pagereq>> \o f.reqs, !.page = page, !.link = link]
        : f \in get_favicon_results(icon)}

\* The icon link resolved: an href without netloc is joined to self.url.
IconLinkUrl(link) ==
    IF link = "absolute" THEN Url("cdn", "/icon.png")
    ELSE urljoin(url, "/icons/a.png")

\* maybe_get_icon from the icon request on, for one answer of the network.
icon_fetch(icon, pagereq, link, net) ==
    LET req == Request(IconLinkUrl(link), user_agent)
        r   == urlopen(net)
        rq  == <<pagereq, req>>
    IN  IF r.raised /= "none"
        THEN IconResult(icon, "none", rq, None, "ok", "href")
        ELSE IF net.code /= 200
        THEN IconResult(None, "none", rq, None, "ok", "href")
        ELSE IconResult(StoreImage(net.body), "none", rq, net.body, "ok", "href")

\* maybe_get_icon past its two guards, for one answer to the page request.
page_fetch(icon, pnet) ==
    LET pagereq == Request(icon_url, user_agent)
        r       == urlopen(pnet)
    IN  IF r.raised /= "none"
        THEN {IconResult(icon, r.raised, <<pagereq>>, None,
                         IF pnet.kind = "unreachable" THEN "unreachable"
                         ELSE "http_error", "-")}
        ELSE IF pnet.code /= 200
        THEN Fallback(icon, pagereq, "non200", "-")
        ELSE IF pnet.body \in {"absent", "nohref"}
        THEN Fallback(icon, pagereq, "ok", pnet.body)
        ELSE {icon_fetch(icon, pagereq, pnet.body, net) : net \in IconNets}

maybe_get_icon_results(icon) ==
    IF IsSet(icon)
    THEN {IconResult(icon, "none", <<>>, None, "-", "-")}
    ELSE IF ~Toolkit(with_pyqt)
    THEN {IconResult(None, "none", <<>>, None, "-", "-")}
    ELSE UNION {page_fetch(icon, pnet) : pnet \in PageNets}

IconCall(op, r) ==
    /\ site_icon' = r.site_icon
    /\ last' = [NoCall EXCEPT !.op = op, !.raised = r.raised, !.reqs = r.reqs,
                              !.before = site_icon, !.raw = r.raw,
                              !.page = r.page, !.link = r.link]
    /\ UNCHANGED <<with_pyqt, url, icon_url, textVars, fileVars, uq>>

MaybeGetIcon ==
    \E r \in maybe_get_icon_results(site_icon) : IconCall("maybe_get_icon", r)

GetFavicon ==
    \E r \in get_favicon_results(site_icon) : IconCall("get_favicon", r)

---------------------------------------------------------------------------
(* The raw fetch helper: get_data_from_url *)

FetchUrls == {Url("site", "/search"), Url("site", "/audio.mp3")}
Bodies == {"<html>", "RIFF"}
FetchNets == {Unreachable} \cup {Response(c, b) : c \in Codes, b \in Bodies}

\* "if 200 != response.code"
StatusOKAny(code) == TRUE
StatusOK(code) == code = 200

get_data_from_url(url_in, net) ==
    LET request == Request(url_in, user_agent)
        r       == urlopen(net)
    IN  IF r.raised /= "none"
        THEN [raised |-> r.raised, message |-> r.message,
              reqs |-> <<request>>, ret |-> None]
        ELSE IF ~StatusOK(net.code)
        THEN [raised |-> "ValueError",
              message |-> <<str(net.code), ": ", net.msg>>,
              reqs |-> <<request>>, ret |-> None]
        ELSE [raised |-> "none", message |-> <<>>,
              reqs |-> <<request>>, ret |-> net.body]

GetDataFromUrl ==
    \E url_in \in FetchUrls, net \in FetchNets :
        LET r == get_data_from_url(url_in, net)
        IN  /\ last' = [NoCall EXCEPT !.op = "get_data_from_url",
                                      !.raised = r.raised,
                                      !.message = r.message, !.reqs = r.reqs,
                                      !.net = net, !.ret = r.ret,
                                      !.arg = url_in]
            /\ UNCHANGED <<iconVars, textVars, fileVars, uq>>

---------------------------------------------------------------------------
(* set_names *)

SetNames ==
    \E text \in Words :
        /\ base_name' = text
        /\ display_text' = text
        /\ last' = [NoCall EXCEPT !.op = "set_names", !.arg = text]
        /\ UNCHANGED <<iconVars, language, downloads_list, fileVars, uq>>

---------------------------------------------------------------------------
(* The downloader as constructed: __init__ *)

Languages == {"ja", "en"}

InitFields ==
    /\ site_icon = None
    /\ downloads_list = <<>>
    /\ display_text = ""
    /\ base_name = ""
    /\ url = Url("site", "/search")
    /\ media_dir = {}
    /\ issued = {}
    /\ last = NoCall

Init ==
    /\ InitFields
    /\ with_pyqt \in BOOLEAN
    /\ language \in Languages
    /\ icon_url \in {Url("site", "/"), Url("www", "/home")}
    /\ use_temp_files = FALSE
    /\ file_extension = ".wav"
    /\ tmp_dir = {}
    /\ uq = None

Next == MaybeGetIcon \/ GetFavicon \/ GetDataFromUrl \/ SetNames

Spec == Init /\ [][Next]_vars

---------------------------------------------------------------------------
(* File-name allocation: get_file_name *)

Extensions == {".wav", ".mp3"}

\* A file name: a stem, a number that makes it unique, and a suffix.
FileName(stem, n, suffix) == [stem |-> stem, n |-> n, suffix |-> suffix]
TempPath(n, suffix) == [dir |-> "tmp", name |-> FileName("tmp", n, suffix)]
MediaPath(name) == [dir |-> "media", name |-> name]

\* tempfile.NamedTemporaryFile(..., suffix=suffix): a file the temp directory
\* does not hold yet is created exclusively; the candidates are the names it
\* may get.
NamedTemporaryFile(tdir, suffix) ==
    {TempPath(n, suffix) : n \in 1..MaxTempNames} \ tdir

\* tfile.close(): with delete=False the file stays in the directory.
CloseDeleting(tdir, path) == tdir \ {path}
Close(tdir, path) == tdir \cup {path}

\* The host's allocator (..exists.free_media_name): a name built from the base
\* name and the extension that the media directory does not hold yet, as the
\* pair (path, file name).
FreeNumbers(base, ext, mdir) ==
    {n \in 0..MaxMedia : FileName(base, n, ext) \notin mdir}

free_media_name(base, ext, mdir) ==
    LET free == FreeNumbers(base, ext, mdir)
        n    == CHOOSE k \in free : \A m \in free : k <= m
    IN  <<MediaPath(FileName(base, n, ext)), FileName(base, n, ext)>>

\* get_file_name of a downloader with the given fields: the pair returned, the
\* temp directory afterwards, and the calls made to the host's allocator.
get_file_name_results(use_temp, ext, base, tdir, mdir) ==
    IF use_temp
    THEN {[ret |-> <<p, p>>, tmp |-> Close(tdir \cup {p}, p), asked |-> <<>>]
            : p \in NamedTemporaryFile(tdir, ext)}
    ELSE IF FreeNumbers(base, ext, mdir) = {} THEN {}
         ELSE {[ret |-> free_media_name(base, ext, mdir), tmp |-> tdir,
                asked |-> <<<<base, ext>>>>]}

NewlyIssued(use_temp, ret) == IF use_temp THEN {ret[1]} ELSE {}

GetFileNameOn(op, use_temp, ext, base) ==
    \E r \in get_file_name_results(use_temp, ext, base, tmp_dir, media_dir) :
        /\ tmp_dir' = r.tmp
        /\ issued' = issued \cup NewlyIssued(use_temp, r.ret)
        /\ last' = [NoCall EXCEPT !.op = op, !.ret = r.ret, !.asked = r.asked,
                       !.before = tmp_dir,
                       !.arg = [use_temp |-> use_temp, ext |-> ext, base |-> base]]
        /\ UNCHANGED <<iconVars, textVars, use_temp_files, file_extension,
                       media_dir, uq>>

GetFileName ==
    GetFileNameOn("get_file_name", use_temp_files, file_extension, base_name)

\* get_file_name of another downloader of the downloaders list: its own
\* extension and base name, the same host configuration and directories.
PeerGetFileName ==
    \E ext \in Extensions, base \in Words :
        GetFileNameOn("peer_get_file_name", use_temp_files, ext, base)

FileOps == {"get_file_name", "peer_get_file_name"}

---------------------------------------------------------------------------
(* download_files, as the derived downloaders implement it *)

\* The language the source serves.
SourceLanguage == "ja"

\* The host sets self.language before every download.
SetLanguage ==
    \E l \in Languages :
        /\ language' = l
        /\ last' = [NoCall EXCEPT !.op = "set_language", !.arg = l]
        /\ UNCHANGED <<iconVars, downloads_list, display_text, base_name,
                       fileVars, uq>>

\* Saving a downloaded clip under the name get_file_name gave: a temp file
\* exists already, a media file is written now.
WriteAudio(use_temp, ret, mdir) ==
    IF use_temp THEN mdir ELSE mdir \cup {ret[2]}

\* n audio variants saved one after the other.
RECURSIVE SaveVariants(_, _, _, _)
SaveVariants(n, base, tdir, mdir) ==
    IF n = 0
    THEN {[files |-> <<>>, tmp |-> tdir, media |-> mdir]}
    ELSE UNION {
            {[files |-> <<g.ret>> \o r.files, tmp |-> r.tmp, media |-> r.media]
                : r \in SaveVariants(n - 1, base, g.tmp,
                                     WriteAudio(use_temp_files, g.ret, mdir))}
            : g \in get_file_name_results(use_temp_files, file_extension,
                                          base, tdir, mdir)}

Entries(files, base) ==
    [i \in 1..Len(files) |-> <<files[i][1], base, {}>>]

DownloadResult(list, raised, base, tdir, mdir, files) ==
    [downloads_list |-> list, raised |-> raised, base_name |-> base,
     tmp |-> tdir, media |-> mdir, files |-> files]

\* The language is the source's: set the names, fetch (which may raise), and
\* add one entry per audio variant found.
download_matching(word) ==
    {DownloadResult(<<>>, "URLError", word, tmp_dir, media_dir, <<>>)}
        \cup UNION {
            {DownloadResult(Entries(s.files, word), "none", word, s.tmp,
                            s.media, s.files)
                : s \in SaveVariants(n, word, tmp_dir, media_dir)}
            : n \in 0..MaxVariants}

\* download_files that tests the language before it clears the results
download_files_keeping(word) ==
    IF language /= SourceLanguage
    THEN {DownloadResult(downloads_list, "none", base_name, tmp_dir,
                         media_dir, <<>>)}
    ELSE download_matching(word)

\* download_files: clear the results; nothing more when the language is not
\* the source's.
download_files(word) ==
    IF language /= SourceLanguage
    THEN {DownloadResult(<<>>, "none", base_name, tmp_dir, media_dir, <<>>)}
    ELSE download_matching(word)

DownloadFiles ==
    \E word \in Words :
        \E r \in download_files(word) :
            /\ downloads_list' = r.downloads_list
            /\ base_name' = r.base_name
            /\ display_text' = r.base_name
            /\ tmp_dir' = r.tmp
            /\ media_dir' = r.media
            /\ issued' = issued \cup
                  UNION {NewlyIssued(use_temp_files, r.files[i])
                            : i \in 1..Len(r.files)}
            /\ last' = [NoCall EXCEPT !.op = "download_files", !.arg = word,
                                      !.raised = r.raised,
                                      !.before = downloads_list,
                                      !.ret = r.files]
            /\ UNCHANGED <<iconVars, language, use_temp_files,
                           file_extension, uq>>

InitFiles ==
    /\ InitFields
    /\ with_pyqt = TRUE
    /\ language \in Languages
    /\ icon_url = Url("site", "/")
    /\ use_temp_files \in BOOLEAN
    /\ file_extension \in Extensions
    /\ tmp_dir = {}
    /\ uq = None

NextFiles ==
    GetFileName \/ PeerGetFileName \/ DownloadFiles \/ SetNames \/ SetLanguage

SpecFiles == InitFiles /\ [][NextFiles]_vars

---------------------------------------------------------------------------
(* uniqify_list *)

Elems == {"a", "b", "c"}
Inputs == UNION {[1..n -> Elems] : n \in 0..MaxLen}

\* no_dupes.count(i), as a test of the last element only
count_last(list, x) ==
    IF Len(list) > 0 /\ list[Len(list)] = x THEN 1 ELSE 0

\* no_dupes.count(i)
count(list, x) == Cardinality({j \in 1..Len(list) : list[j] = x})

\* The comprehension: for i in seq, append i if not no_dupes.count(i).
RECURSIVE uniqify_loop(_, _, _)
uniqify_loop(seq, k, no_dupes) ==
    IF k > Len(seq) THEN no_dupes
    ELSE uniqify_loop(seq, k + 1,
                      IF count(no_dupes, seq[k]) = 0
                      THEN Append(no_dupes, seq[k])
                      ELSE no_dupes)

uniqify_list(seq) == uniqify_loop(seq, 1, <<>>)

\* One call, and a second call on what the first returned; seq is the
\* caller's list after the call, which the function only reads.
UniqifyList ==
    \E s \in Inputs :
        /\ uq' = [arg |-> s, seq |-> s, out |-> uniqify_list(s),
                  twice |-> uniqify_list(uniqify_list(s))]
        /\ last' = [NoCall EXCEPT !.op = "uniqify_list"]
        /\ UNCHANGED <<iconVars, textVars, fileVars>>

InitUniq ==
    /\ InitFields
    /\ with_pyqt = TRUE
    /\ language = "ja"
    /\ icon_url = Url("site", "/")
    /\ use_temp_files = FALSE
    /\ file_extension = ".wav"
    /\ tmp_dir = {}
    /\ uq = None

NextUniq == UniqifyList

SpecUniq == InitUniq /\ [][NextUniq]_vars

---------------------------------------------------------------------------
(* Claims about download_files and get_file_name (under SpecFiles) *)

\* C3: a download_files call made while the language tag is not the source's
\* returns normally and leaves downloads_list empty, whatever the text and
\* whatever the list held before.
C3_WrongLanguageEmpty ==
    (last.op = "download_files" /\ language /= SourceLanguage)
        => downloads_list = <<>> /\ last.raised = "none"

\* C3 witness: such a call on a downloader that held results of an earlier
\* download.
C3_Witness ==
    /\ last.op = "download_files"
    /\ language /= SourceLanguage
    /\ last.before /= <<>>
    /\ downloads_list = <<>>

---------------------------------------------------------------------------
(* Claims about uniqify_list (under SpecUniq) *)

Range(seq) == {seq[i] : i \in 1..Len(seq)}
FirstIndex(seq, x) ==
    CHOOSE i \in 1..Len(seq) :
        seq[i] = x /\ \A j \in 1..(i - 1) : seq[j] /= x

\* C7: the result holds exactly the distinct elements of the argument, each
\* once, in the order of their first occurrence; the argument is left as it
\* was; a second application returns its argument.
C7_Uniqify ==
    uq /= None
        => /\ Range(uq.out) = Range(uq.arg)
           /\ \A i, j \in 1..Len(uq.out) :
                 i < j => /\ uq.out[i] /= uq.out[j]
                          /\ FirstIndex(uq.arg, uq.out[i])
                                < FirstIndex(uq.arg, uq.out[j])
           /\ uq.seq = uq.arg
           /\ uq.twice = uq.out

\* C7 witness: an argument with a repeated element between two others.
C7_Witness ==
    /\ uq /= None
    /\ Len(uq.arg) = MaxLen
    /\ Len(uq.out) = 2
    /\ uq.arg[1] = uq.arg[3]
    /\ uq.arg[1] /= uq.arg[2]

---------------------------------------------------------------------------
(* Claims about icon retrieval and the raw fetch helper (under Spec) *)

FaviconUrl == urljoin(icon_url, "/favicon.ico")
AskedFavicon(reqs) == \E i \in 1..Len(reqs) : reqs[i].url = FaviconUrl
Abs(n) == IF n >= 0 THEN n ELSE -n

\* C1 as stated: once an icon call has finished a retrieval attempt without
\* raising (whether it left an image or None), the next icon call issues no
\* request.
C1_NeverRefetched ==
    [][(last.op \in IconOps /\ last.reqs /= <<>> /\ last.raised = "none")
          => (last'.op \in IconOps => last'.reqs = <<>>)]_vars

\* C1 as amended: an icon call issues network requests exactly when it finds
\* site_icon None with the toolkit available; so an image is never re-fetched,
\* and a None left by a failed attempt is fetched again by the next call.
C1_FetchesExactlyWhenUnset ==
    last.op \in IconOps
        => ((last.reqs /= <<>>) <=> (last.before = None /\ with_pyqt))

\* C1 witness: a finished attempt that met a non-200 answer and left None.
C1_Witness ==
    /\ last.op \in IconOps
    /\ last.before = None
    /\ last.reqs /= <<>>
    /\ last.raised = "none"
    /\ site_icon = None

\* C2: once site_icon holds an image, no step changes it and every later
\* maybe_get_icon or get_favicon call issues no request.
C2_CachedIconKept ==
    [][site_icon /= None
          => /\ site_icon' = site_icon
             /\ (last'.op \in IconOps => last'.reqs = <<>>)]_vars

\* C2 witness: a maybe_get_icon call made while an image was stored.
C2_Witness ==
    /\ last.op = "maybe_get_icon"
    /\ last.before /= None
    /\ last.reqs = <<>>
    /\ site_icon = last.before

\* C4: get_data_from_url, for every response: a status other than 200 raises
\* an error whose message holds the status code and the reason phrase and no
\* data is returned; status 200 returns the body as received; the one request
\* carries the user-agent header.
C4_FetchChecksStatus ==
    (last.op = "get_data_from_url" /\ last.net.kind = "response")
        => /\ last.reqs = <<Request(last.arg, user_agent)>>
           /\ IF last.net.code /= 200
              THEN /\ last.raised /= "none"
                   /\ Contains(last.message, str(last.net.code))
                   /\ Contains(last.message, last.net.msg)
                   /\ last.ret = None
              ELSE /\ last.raised = "none"
                   /\ last.ret = last.net.body

\* C4 witness: a 204 answer, which urlopen returns and the helper's own check
\* turns into a ValueError.
C4_Witness ==
    /\ last.op = "get_data_from_url"
    /\ last.net.kind = "response"
    /\ last.net.code = 204
    /\ last.raised = "ValueError"

\* C5 as stated: no icon call raises, and one that retrieved no image leaves
\* site_icon None.
C5_NeverPropagates ==
    last.op \in IconOps
        => /\ last.raised = "none"
           /\ (last.before = None /\ last.raw = None) => site_icon = None

\* C6 as stated: a maybe_get_icon call that starts a retrieval requests
\* /favicon.ico exactly when the page load failed or the page had no rel=icon
\* link with an href.
C6_FallbackExactly ==
    (last.op = "maybe_get_icon" /\ last.before = None /\ with_pyqt)
        => (AskedFavicon(last.reqs)
              <=> \/ last.page \in {"unreachable", "http_error", "non200"}
                  \/ last.link \in {"absent", "nohref"})

\* C9: without the toolkit every maybe_get_icon / get_favicon call issues no
\* request, raises nothing, leaves site_icon None and changes no other field.
C9_NoToolkitNoOp ==
    [][(~with_pyqt /\ last'.op \in IconOps)
          => /\ last'.reqs = <<>>
             /\ last'.raised = "none"
             /\ site_icon' = None
             /\ UNCHANGED <<downloads_list, language, base_name,
                            display_text, url, icon_url>>]_vars

\* C9 witness: a get_favicon call without the toolkit, on a downloader whose
\* names were set.
C9_Witness ==
    /\ ~with_pyqt
    /\ last.op = "get_favicon"
    /\ base_name \in Words

\* C10: a stored icon fits in max_icon_size x max_icon_size; a retrieved image
\* is stored scaled exactly when a side exceeds the bound, and then fills the
\* box on one side with its aspect ratio kept up to integer rounding.
C10_IconWithinBound ==
    /\ site_icon /= None
          => site_icon.w <= max_icon_size /\ site_icon.h <= max_icon_size
    /\ (last.op \in IconOps /\ last.raw /= None)
          => LET r == last.raw
                 s == site_icon
                 over == r.w > max_icon_size \/ r.h > max_icon_size
             IN  /\ over <=> s /= r
                 /\ over => /\ s.w = max_icon_size \/ s.h = max_icon_size
                            /\ s.w >= 1 /\ s.h >= 1
                            /\ Abs(s.w * r.h - s.h * r.w) < Max(r.w, r.h)

\* C10 witness: an oversized image retrieved on the /favicon.ico fallback of
\* maybe_get_icon.
C10_Witness ==
    /\ last.op = "maybe_get_icon"
    /\ Len(last.reqs) = 2
    /\ last.reqs[2].url = FaviconUrl
    /\ last.raw /= None
    /\ last.raw.h > max_icon_size
    /\ last.raw.w <= max_icon_size

===========================================================================
